---- MODULE Spec2Model ----
(***************************************************************************)
(* Model of scripts/picus-token-helper.py: the PicusTokenHelper class (a   *)
(* refresh token, an access token and its expiry, kept in memory and in a  *)
(* JSON token file) and the command line tool main() that drives it.       *)
(*                                                                         *)
(* Python values: an optional value is a sequence, None == <<>> and a      *)
(* present value v is <<v>>, so that None, "" and 0 stay three different   *)
(* values, as they are in Python, while all three are falsy.               *)
(***************************************************************************)
EXTENDS Integers, Sequences, FiniteSets, TLC

VARIABLES
    self,       \* the PicusTokenHelper instance: refresh_token, access_token,
                \* token_expires_at
    file,       \* the token file (self.token_file) on disk
    now,        \* the wall clock, int(time.time()), in seconds
    pc,         \* the position of the run in main() / interactive_setup();
                \* "direct" when get_token_status is called on its own
    mode,       \* the branch of main() the parsed flags select
    ret,        \* the last method call: op, what it returned (ok) and what it
                \* read, received or printed (out)
    net         \* the requests issued since the helper was constructed

vars == <<self, file, now, pc, mode, ret, net>>

(***************************************************************************)
(* Bounds of the model.                                                    *)
(***************************************************************************)
\* The clock runs from 1 to MaxTime.
MaxTime == 3
\* Stand-in for the largest timestamp datetime.fromtimestamp accepts: the
\* call raises above it.
MaxTimestamp == 5000

(***************************************************************************)
(* Constants of the program.                                               *)
(***************************************************************************)
Placeholder == "your_refresh_token_here"
DefaultLifetime == 3600

None == <<>>
Some(v) == <<v>>

\* Python truthiness of an optional string / an optional integer.
Truthy(x) == x # None /\ x[1] # ""
TruthyInt(x) == x # None /\ x[1] # 0

(***************************************************************************)
(* The token file.  kind is "missing" (no such file), "corrupt" (not JSON, *)
(* or JSON that is no object: json.load or .get raises) or "json".         *)
(* timestamp is "absent", "number" or "not_a_number": load_tokens only     *)
(* prints an age from its value.  writer tells who wrote the file last:    *)
(* the "operator", create_example_token_file ("example") or save_tokens    *)
(* ("save").  created_at is the same instant as timestamp and is never     *)
(* read, and the permission bits os.chmod sets are read by nothing: both   *)
(* are left out.  base_url decides where the requests go and nothing else. *)
(***************************************************************************)
JsonFile(r, a, e, ts, instr, writer) ==
    [kind |-> "json", refresh_token |-> r, access_token |-> a,
     expires_at |-> e, timestamp |-> ts, instructions |-> instr,
     writer |-> writer]

MissingFile ==
    [kind |-> "missing", refresh_token |-> None, access_token |-> None,
     expires_at |-> None, timestamp |-> "absent", instructions |-> FALSE,
     writer |-> "operator"]

CorruptFile(writer) ==
    [kind |-> "corrupt", refresh_token |-> None, access_token |-> None,
     expires_at |-> None, timestamp |-> "absent", instructions |-> FALSE,
     writer |-> writer]

\* open(self.token_file, 'w') followed by json.dump(token_data, f): io is
\* "open_fail" (open raises, the file is untouched), "write_fail" (the file
\* was truncated and the dump raised) or the dump succeeds ("ok", and
\* "chmod_fail" when only os.chmod raised afterwards).
WriteFile(f, data, io) ==
    IF io = "open_fail" THEN f
    ELSE IF io = "write_fail" THEN CorruptFile(data.writer)
    ELSE data

\* save_tokens: the token_data it builds, and what it leaves in the file.
TokenData(r, a, e) ==
    JsonFile(r,
             IF Truthy(a) THEN a ELSE None,
             IF TruthyInt(e) THEN e ELSE None,
             "number", FALSE, "save")

\* save_tokens that leaves expires_at out of token_data.
SaveTokensDropExpiry(f, r, a, e, io) == WriteFile(f, TokenData(r, a, None), io)

SaveTokens(f, r, a, e, io) == WriteFile(f, TokenData(r, a, e), io)

\* create_example_token_file: what it leaves in the file.
ExampleData ==
    JsonFile(Some(Placeholder), None, None, "number", TRUE, "example")

CreateExample(f, io) == WriteFile(f, ExampleData, io)

\* load_tokens without its test for the placeholder.
LoadTokensNoPlaceholderCheck(f, s) ==
    IF f.kind # "json" THEN [self |-> s, ok |-> FALSE]
    ELSE LET s1 == [s EXCEPT !.refresh_token = f.refresh_token,
                             !.access_token = f.access_token]
         IN  IF ~Truthy(s1.refresh_token) THEN [self |-> s1, ok |-> FALSE]
             ELSE IF f.timestamp = "not_a_number"
                  THEN [self |-> s1, ok |-> FALSE]
             ELSE [self |-> s1, ok |-> TRUE]

\* load_tokens: the fields it sets and what it returns.  token_expires_at is
\* not read from the file.  A timestamp that is no number makes the age
\* computation raise, after the two tokens were set.
LoadTokens(f, s) ==
    IF f.kind # "json" THEN [self |-> s, ok |-> FALSE]
    ELSE LET s1 == [s EXCEPT !.refresh_token = f.refresh_token,
                             !.access_token = f.access_token]
         IN  IF ~Truthy(s1.refresh_token) THEN [self |-> s1, ok |-> FALSE]
             ELSE IF s1.refresh_token = Some(Placeholder)
                  THEN [self |-> s1, ok |-> FALSE]
             ELSE IF f.timestamp = "not_a_number"
                  THEN [self |-> s1, ok |-> FALSE]
             ELSE [self |-> s1, ok |-> TRUE]

\* authenticate, from response.json() on (a 2xx answer whose body is JSON):
\* the fields it sets, what it returns, and whether it reaches save_tokens.
\* t is int(time.time()).  datetime.fromtimestamp raises on an expire_at
\* beyond what it can represent, after both fields were set.
ParseAuthBodyRotates(s, resp, t) ==
    LET s1 == [s EXCEPT !.access_token = resp.token,
                        !.refresh_token = resp.token]
    IN  IF Truthy(s1.access_token)
        THEN IF TruthyInt(resp.expire_at)
             THEN LET s2 == [s1 EXCEPT !.token_expires_at = resp.expire_at[1]]
                  IN  IF resp.expire_at[1] > MaxTimestamp
                      THEN [self |-> s2, ok |-> FALSE, save |-> FALSE]
                      ELSE [self |-> s2, ok |-> TRUE, save |-> TRUE]
             ELSE [self |-> [s1 EXCEPT !.token_expires_at = t + DefaultLifetime],
                   ok |-> TRUE, save |-> TRUE]
        ELSE [self |-> s1, ok |-> FALSE, save |-> FALSE]

ParseAuthBody(s, resp, t) ==
    LET s1 == [s EXCEPT !.access_token = resp.token]
    IN  IF Truthy(s1.access_token)
        THEN IF TruthyInt(resp.expire_at)
             THEN LET s2 == [s1 EXCEPT !.token_expires_at = resp.expire_at[1]]
                  IN  IF resp.expire_at[1] > MaxTimestamp
                      THEN [self |-> s2, ok |-> FALSE, save |-> FALSE]
                      ELSE [self |-> s2, ok |-> TRUE, save |-> TRUE]
             ELSE [self |-> [s1 EXCEPT !.token_expires_at = t + DefaultLifetime],
                   ok |-> TRUE, save |-> TRUE]
        ELSE [self |-> s1, ok |-> FALSE, save |-> FALSE]

\* authenticate without response.raise_for_status(): the body of an error
\* answer is read like that of a 2xx answer.
AuthResultNoRaise(s, resp, t) ==
    IF resp.kind \in {"ok", "http_error"} THEN ParseAuthBody(s, resp, t)
    ELSE [self |-> s, ok |-> FALSE, save |-> FALSE]

\* authenticate, from the answer to the POST on.  A timeout, a connection
\* error, any other requests error, a non-2xx status (raise_for_status) and
\* a body that is no JSON all raise before a field is set.
AuthResult(s, resp, t) ==
    IF resp.kind = "ok" THEN ParseAuthBody(s, resp, t)
    ELSE [self |-> s, ok |-> FALSE, save |-> FALSE]

\* get_token_status that takes a token expiring at this very second as valid.
TokenStatusInclusive(s, t) ==
    [refresh |-> IF Truthy(s.refresh_token)
                 THEN IF s.refresh_token = Some(Placeholder)
                      THEN "PLACEHOLDER" ELSE "SET"
                 ELSE "NOT SET",
     access |-> IF Truthy(s.access_token)
                THEN IF s.token_expires_at >= t THEN "VALID" ELSE "EXPIRED"
                ELSE "NOT SET",
     remaining |-> IF Truthy(s.access_token) /\ s.token_expires_at >= t
                   THEN Some(s.token_expires_at - t) ELSE None]

\* get_token_status: what it prints (remaining is the local of that name).
TokenStatus(s, t) ==
    [refresh |-> IF Truthy(s.refresh_token)
                 THEN IF s.refresh_token = Some(Placeholder)
                      THEN "PLACEHOLDER" ELSE "SET"
                 ELSE "NOT SET",
     access |-> IF Truthy(s.access_token)
                THEN IF s.token_expires_at > t THEN "VALID" ELSE "EXPIRED"
                ELSE "NOT SET",
     remaining |-> IF Truthy(s.access_token) /\ s.token_expires_at > t
                   THEN Some(s.token_expires_at - t) ELSE None]

\* str.strip() of what the operator types.
Strip(raw) ==
    CASE raw = "   " -> ""
      [] raw = " rt2 " -> "rt2"
      [] OTHER -> raw

\* __init__
NewHelper ==
    [refresh_token |-> None, access_token |-> None, token_expires_at |-> 0]

(***************************************************************************)
(* Inputs.                                                                 *)
(***************************************************************************)
Flags == [create_example : BOOLEAN, setup : BOOLEAN, status : BOOLEAN,
          test : BOOLEAN]

\* The branch of main() a set of flags selects.
Mode(a) ==
    IF a.create_example THEN "create_example"
    ELSE IF a.setup THEN "setup"
    ELSE IF a.status THEN "status"
    ELSE IF a.test THEN "test"
    ELSE "default"

\* Token files an operator may have left before the tool runs.
InitFiles ==
    {MissingFile, CorruptFile("operator")} \cup
    {JsonFile(r, ae[1], ae[2], "number", FALSE, "operator") :
        r \in {None, Some(""), Some(Placeholder), Some("rt1")},
        ae \in {<<None, None>>, <<Some("AT0"), Some(2)>>}} \cup
    {JsonFile(Some("rt1"), Some("AT0"), None, ts, FALSE, "operator") :
        ts \in {"absent", "not_a_number"}}

TypedTokens == {"", "   ", " rt2 ", "rt1", Placeholder}

WriteOutcomes == {"ok", "chmod_fail", "open_fail", "write_fail"}

AuthResponses ==
    {[kind |-> k, status |-> 0, token |-> None, expire_at |-> None] :
        k \in {"timeout", "connection_error", "request_error"}} \cup
    {[kind |-> "http_error", status |-> c, token |-> None, expire_at |-> None] :
        c \in {401, 403, 500}} \cup
    {[kind |-> "bad_json", status |-> 200, token |-> None, expire_at |-> None]} \cup
    {[kind |-> "ok", status |-> 200, token |-> tk, expire_at |-> e] :
        tk \in {None, Some(""), Some("AT1"), Some("AT2")},
        e \in {None, Some(0)} \cup {Some(x) : x \in 1..(MaxTime + 1)}
              \cup {Some(MaxTimestamp + 1)}}

NotSent == [kind |-> "not_sent", status |-> 0, token |-> None, expire_at |-> None]

ProbeResponses ==
    {[kind |-> k, status |-> 0] :
        k \in {"timeout", "connection_error", "bad_json"}} \cup
    {[kind |-> "http_error", status |-> c] : c \in {401, 403, 500}} \cup
    {[kind |-> "ok", status |-> 200]}

\* The fields of a helper: the tokens load_tokens, interactive_setup and
\* authenticate can set, and the expiries authenticate can set.
HelperStates ==
    [refresh_token : {None, Some(Placeholder), Some("rt1")},
     access_token : {None, Some(""), Some("AT1")},
     token_expires_at : (0..(MaxTime + 1))
                        \cup {t + DefaultLifetime : t \in 1..MaxTime}]

NoCall == [op |-> "none", ok |-> FALSE, out |-> None]
NoNet == [auth |-> FALSE, probe |-> FALSE]

(***************************************************************************)
(* The run.                                                                *)
(***************************************************************************)
Init ==
    /\ self = NewHelper
    /\ file \in InitFiles
    /\ now = 1
    /\ pc = "idle"
    /\ mode = "default"
    /\ ret = NoCall
    /\ net = NoNet

\* get_token_status called on a helper in any state the methods can leave
\* it in, at any time.
InitStatus ==
    /\ self \in HelperStates
    /\ file = MissingFile
    /\ now \in 1..MaxTime
    /\ pc = "direct"
    /\ mode = "default"
    /\ ret = NoCall
    /\ net = NoNet

\* time passes
Tick ==
    /\ now < MaxTime
    /\ now' = now + 1
    /\ UNCHANGED <<self, file, pc, mode, ret, net>>

\* main(): parse the flags, construct the helper, dispatch.
Main ==
    /\ pc = "idle"
    /\ \E a \in Flags :
        /\ mode' = Mode(a)
        /\ pc' = IF Mode(a) \in {"create_example", "setup"} THEN Mode(a)
                 ELSE "load"
    /\ self' = NewHelper
    /\ ret' = NoCall
    /\ net' = NoNet
    /\ UNCHANGED <<file, now>>

\* helper.create_example_token_file()
CreateExampleTokenFile ==
    /\ pc = "create_example"
    /\ \E io \in WriteOutcomes \ {"chmod_fail"} :
        file' = CreateExample(file, io)
    /\ ret' = [op |-> "create_example_token_file", ok |-> TRUE, out |-> None]
    /\ pc' = "idle"
    /\ UNCHANGED <<self, now, mode, net>>

\* helper.load_tokens(), and the branch main() takes on its result
LoadTokensCall ==
    /\ pc = "load"
    /\ LET r == LoadTokens(file, self)
       IN  /\ self' = r.self
           /\ ret' = [op |-> "load_tokens", ok |-> r.ok, out |-> file]
           /\ pc' = IF ~r.ok THEN "idle"
                    ELSE IF mode = "status" THEN "status"
                    ELSE IF mode = "test" THEN "test_auth"
                    ELSE "default_status"
    /\ UNCHANGED <<file, now, mode, net>>

\* helper.get_token_status()
GetTokenStatus ==
    /\ pc \in {"status", "default_status", "direct"}
    /\ ret' = [op |-> "get_token_status", ok |-> TRUE,
               out |-> TokenStatus(self, now)]
    /\ pc' = IF pc = "default_status"
             THEN IF Truthy(self.refresh_token)
                     /\ self.refresh_token # Some(Placeholder)
                  THEN "default_auth" ELSE "idle"
             ELSE IF pc = "status" THEN "idle"
             ELSE "direct"
    /\ UNCHANGED <<self, file, now, mode, net>>

\* helper.authenticate(), save_tokens included
Authenticate ==
    /\ pc \in {"test_auth", "default_auth", "setup_auth"}
    /\ \E resp \in AuthResponses, io \in WriteOutcomes :
        LET sent == Truthy(self.refresh_token)
            r == IF sent THEN AuthResult(self, resp, now)
                 ELSE [self |-> self, ok |-> FALSE, save |-> FALSE]
        IN  /\ self' = r.self
            /\ net' = IF sent THEN [net EXCEPT !.auth = TRUE] ELSE net
            /\ file' = IF r.save
                       THEN SaveTokens(file, r.self.refresh_token,
                                       r.self.access_token,
                                       Some(r.self.token_expires_at), io)
                       ELSE file
            /\ ret' = [op |-> "authenticate", ok |-> r.ok,
                       out |-> IF sent THEN resp ELSE NotSent]
            /\ pc' = IF pc = "test_auth"
                          THEN IF r.ok THEN "test_probe" ELSE "idle"
                     ELSE IF pc = "default_auth"
                          THEN IF r.ok THEN "default_probe" ELSE "idle"
                     ELSE IF r.ok THEN "setup_probe" ELSE "idle"
    /\ UNCHANGED <<now, mode>>

\* helper.test_api_connection()
TestApiConnection ==
    /\ pc \in {"test_probe", "default_probe", "setup_probe"}
    /\ \E resp \in ProbeResponses :
        LET sent == Truthy(self.access_token)
        IN  /\ net' = IF sent THEN [net EXCEPT !.probe = TRUE] ELSE net
            /\ ret' = [op |-> "test_api_connection",
                       ok |-> sent /\ resp.kind = "ok",
                       out |-> IF sent THEN resp.kind ELSE "not_sent"]
    /\ pc' = "idle"
    /\ UNCHANGED <<self, file, now, mode>>

\* helper.interactive_setup(), up to its call of authenticate
InteractiveSetup ==
    /\ pc = "setup"
    /\ \E typed \in TypedTokens :
        LET token == Strip(typed)
        IN  IF token = ""
            THEN /\ self' = self
                 /\ ret' = [op |-> "interactive_setup", ok |-> FALSE,
                            out |-> None]
                 /\ pc' = "idle"
            ELSE /\ self' = [self EXCEPT !.refresh_token = Some(token)]
                 /\ ret' = [op |-> "interactive_setup", ok |-> TRUE,
                            out |-> None]
                 /\ pc' = "setup_auth"
    /\ UNCHANGED <<file, now, mode, net>>

Next ==
    \/ Tick
    \/ Main
    \/ CreateExampleTokenFile
    \/ LoadTokensCall
    \/ GetTokenStatus
    \/ Authenticate
    \/ TestApiConnection
    \/ InteractiveSetup

Spec == Init /\ [][Next]_vars

\* get_token_status on its own, as time passes
NextStatus ==
    \/ Tick
    \/ GetTokenStatus

SpecStatus == InitStatus /\ [][NextStatus]_vars

(***************************************************************************)
(* Properties.                                                             *)
(***************************************************************************)
\* A step that is a call of authenticate, of test_api_connection, of
\* get_token_status inside main().
AuthStep == pc \in {"test_auth", "default_auth", "setup_auth"} /\ pc' # pc
ProbeStep == pc \in {"test_probe", "default_probe", "setup_probe"} /\ pc' # pc
StatusStep == pc \in {"status", "default_status"} /\ pc' # pc

\* A record whose refresh_token is missing, empty or the placeholder.
BadRefresh(f) ==
    /\ f.kind = "json"
    /\ (~Truthy(f.refresh_token) \/ f.refresh_token = Some(Placeholder))

\* C1: save_tokens followed immediately by load_tokens reproduces the saved
\* values: once load_tokens has read a record that save_tokens wrote, the
\* helper's refresh_token, access_token and token_expires_at are the
\* record's refresh_token, access_token and expires_at.
C1_SaveLoadRoundTrip ==
    (ret.op = "load_tokens" /\ ret.ok /\ file.kind = "json"
     /\ file.writer = "save")
        => /\ self.refresh_token = file.refresh_token
           /\ self.access_token = file.access_token
           /\ Some(self.token_expires_at) = file.expires_at

\* C2: load_tokens fails on every record whose refresh_token is missing,
\* empty or the placeholder, and the run that loaded it is over without a
\* request to the authentication endpoint.
C2_BadRecordNeverAuthenticates ==
    (ret.op = "load_tokens" /\ BadRefresh(ret.out))
        => (~ret.ok /\ pc = "idle" /\ ~net.auth)

C2_Witness ==
    /\ ret.op = "load_tokens"
    /\ ret.out.kind = "json"
    /\ ret.out.refresh_token = Some(Placeholder)
    /\ mode = "test"
    /\ pc = "idle"

\* C3: authenticate called while refresh_token is absent or the placeholder
\* returns failure, sends no request and leaves the token file alone.
C3_NoRefreshTokenNoRequest ==
    [][(AuthStep /\ (~Truthy(self.refresh_token)
                     \/ self.refresh_token = Some(Placeholder)))
        => (~ret'.ok /\ net' = net /\ file' = file)]_vars

C5_SuccessMeansPersisted ==
    (ret.op = "authenticate" /\ ret.ok)
        => /\ file.kind = "json"
           /\ file.writer = "save"
           /\ file.refresh_token = self.refresh_token
           /\ file.access_token = self.access_token
           /\ file.access_token = ret.out.token
           /\ file.expires_at = Some(self.token_expires_at)

\* C6: every record the tool wrote into the token file has access_token and
\* expires_at both present or both absent.
C6_TokenAndExpiryTogether ==
    (file.kind = "json" /\ file.writer # "operator")
        => ((file.access_token = None) <=> (file.expires_at = None))

C6_Witness ==
    /\ file.kind = "json"
    /\ file.writer = "save"
    /\ file.access_token = Some("AT1")
    /\ file.expires_at = Some(now + DefaultLifetime)

\* C7: authenticate, test_api_connection and get_token_status never change
\* the helper's refresh token, and a record authenticate writes carries
\* that refresh token.
C7_RefreshTokenFrame ==
    [][(AuthStep \/ ProbeStep \/ StatusStep)
        => /\ self'.refresh_token = self.refresh_token
           /\ (file' # file /\ file'.kind = "json")
                => file'.refresh_token = self.refresh_token]_vars

C7_Witness ==
    /\ ret.op = "authenticate"
    /\ ret.ok
    /\ mode = "test"
    /\ file.writer = "save"
    /\ file.refresh_token = Some("rt1")
    /\ self.refresh_token = Some("rt1")

\* C8: on a 2xx answer with a token, authenticate sets the expiry, in the
\* helper and in the record in the file, to now + 3600 (within a second)
\* when the answer gives no expire_at, and to expire_at when it gives one
\* (an expire_at of 0 is read as none given, as the code reads it).
C8_ExpiryFromResponse ==
    [][(AuthStep /\ ret'.out.kind = "ok" /\ Truthy(ret'.out.token))
        => /\ file'.kind = "json"
           /\ file'.expires_at = Some(self'.token_expires_at)
           /\ IF TruthyInt(ret'.out.expire_at)
              THEN self'.token_expires_at = ret'.out.expire_at[1]
              ELSE self'.token_expires_at \in
                     (now + DefaultLifetime - 1)..(now + DefaultLifetime + 1)]_vars

\* C9: get_token_status, for a helper with an access token, reports VALID
\* exactly when now < token_expires_at, then with remaining =
\* token_expires_at - now >= 0, and EXPIRED otherwise; it changes neither
\* the helper nor the file and sends nothing.
C9_StatusValidIffBeforeExpiry ==
    [][(StatusStep \/ (pc = "direct" /\ now' = now))
        => /\ ret'.op = "get_token_status"
           /\ Truthy(self.access_token)
                => /\ (ret'.out.access = "VALID") <=> (now < self.token_expires_at)
                   /\ (ret'.out.access = "EXPIRED") <=> (now >= self.token_expires_at)
                   /\ (ret'.out.access = "VALID")
                        => /\ ret'.out.remaining = Some(self.token_expires_at - now)
                           /\ ret'.out.remaining[1] >= 0
           /\ self' = self /\ file' = file /\ net' = net]_vars

C9_Witness ==
    /\ ret.op = "get_token_status"
    /\ Truthy(self.access_token)
    /\ self.token_expires_at = now + 1
    /\ ret.out.access = "VALID"
    /\ ret.out.remaining = Some(1)

\* C10: over calls of authenticate and the passage of time, an access token
\* state that get_token_status reports as set (VALID or EXPIRED) never goes
\* back to NOT SET, and a call of authenticate that fails leaves the
\* reported state where it was.
C10_AccessTokenLifecycle ==
    [][(AuthStep \/ now' # now)
        => LET a == TokenStatus(self, now).access
               b == TokenStatus(self', now').access
           IN  /\ (a # "NOT SET") => (b # "NOT SET")
               /\ (AuthStep /\ ~ret'.ok) => (a = b)]_vars

====
